---- MODULE Spec2Model ----
(***************************************************************************)
(* The user store (app/model/user/user.go) and the login service           *)
(* (Login, validate, buildSession) of growerlab/backend, as a state        *)
(* machine over the "user" and "session" relations.                        *)
(*                                                                         *)
(* Strings are sequences of characters, so that strings.Contains and len   *)
(* are computed and not assumed.  Unix timestamps are integers; a NULL     *)
(* column is the value NULL.                                               *)
(***************************************************************************)
EXTENDS Integers, Sequences, FiniteSets, TLC

VARIABLES
    users,      \* the "user" relation, in the order a scan returns its rows
    nextID,     \* the serial behind user.id
    sessions,   \* the "session" relation
    nextUUID,   \* how many tokens uuid.UUID() has handed out
    now,        \* time.Now().Unix()
    pc,         \* per Login call: where it stands
    req,        \* per Login call: the LoginUserPayload
    user,       \* per Login call: of the user validate returned, the columns Login reads
    tx,         \* per Login call: the statements of its open transaction
    result,     \* per Login call: the UserLoginResult
    err,        \* per Login call: the error returned
    cookie,     \* per Login call: the auth-user-token cookie set on the response
    resp        \* the answer of the last read operation

vars == <<users, nextID, sessions, nextUUID, now, pc, req, user, tx,
          result, err, cookie, resp>>

store  == <<users, nextID, sessions, nextUUID>>
logins == <<pc, req, user, tx, result, err, cookie>>

-----------------------------------------------------------------------------
(* Bounds *)

MaxUsers == 2
NumCalls == 2
MaxTicks == 2

(* Program constants *)

\* const TokenExpiredTime = 24 * time.Hour * 30, in the seconds of Unix()
TokenExpiredTime == 24 * 3600 * 30

\* The value of a nullable column that is nil
NULL == -1

\* time.Now().Unix() in the initial state
Epoch == 1

Calls == 1 .. NumCalls

\* Registration data: e-mail addresses hold an "@", user names do not.
Emails    == { <<"a", "@", "x">>, <<"b", "@", "x">> }
Usernames == { <<"a">>, <<"b">> }

\* ctx.ClientIP() of the request behind call p
ClientIP(p) == <<"10.0.0", p>>

Registrations ==
    { [email |-> <<"a", "@", "x">>, username |-> <<"a">>, password |-> "pw1", is_admin |-> TRUE],
      [email |-> <<"b", "@", "x">>, username |-> <<"b">>, password |-> "pw2", is_admin |-> FALSE],
      [email |-> <<"a", "@", "x">>, username |-> <<"b">>, password |-> "pw2", is_admin |-> FALSE] }

Credentials ==
    { [Email |-> <<"a", "@", "x">>, Password |-> "pw1"],
      [Email |-> <<"a">>,           Password |-> "pw1"],
      [Email |-> <<"a">>,           Password |-> "pw2"],
      [Email |-> <<"b", "@", "x">>, Password |-> "pw2"],
      [Email |-> <<"b">>,           Password |-> "pw1"] }

\* The clock is looked at once every token lifetime.
TickSteps == { TokenExpiredTime }

-----------------------------------------------------------------------------
(* Values *)

OK == "nil"

NilUser ==
    [id |-> 0, email |-> <<>>, encrypted_password |-> <<>>, username |-> <<>>,
     deleted_at |-> NULL, verified_at |-> NULL, last_login_at |-> NULL,
     last_login_ip |-> <<>>, is_admin |-> FALSE, namespace_id |-> 0]

\* Of a user row, what Login reads after validate: ID, Email, Namespace().
LoginUser(u) == [id |-> u.id, email |-> u.email, namespace_id |-> u.namespace_id]

NoToken == <<>>

NilResult == [Token |-> NoToken, NamespaceID |-> 0, Email |-> <<>>]

NoTx == [update |-> <<>>, insert |-> <<>>]

NoResp == [op |-> "none", a |-> 0, b |-> 0, rows |-> <<>>, ok |-> FALSE]

\* pwd.GeneratePassword / pwd.ComparePassword: a hash is not the password
\* and matches exactly the password it was made from.
Hash(password) == <<"bcrypt", password>>

ComparePassword(encrypted, password) == encrypted = Hash(password)

\* uuid.UUID(): the n-th token handed out; no two are equal.
UUID(n) == <<"uuid", n>>

-----------------------------------------------------------------------------
(* Sequences *)

Take(s, n) == SubSeq(s, 1, IF n < Len(s) THEN n ELSE Len(s))

Drop(s, n) == SubSeq(s, (IF n < Len(s) THEN n ELSE Len(s)) + 1, Len(s))

Without(s, i) == SubSeq(s, 1, i - 1) \o SubSeq(s, i + 1, Len(s))

\* strings.Contains(s, c) for a one-character c
Contains(s, c) == \E i \in DOMAIN s : s[i] = c

-----------------------------------------------------------------------------
(* The user store: app/model/user/user.go *)

\* NormalUser, the condition of the rows that are not soft-deleted
NormalUser(u) == u.deleted_at = NULL

\* InactivateUser, the condition of the rows that are not verified yet
InactivateUser(u) == u.verified_at = NULL

\* func (u *User) Verified() bool
Verified(u) == u.verified_at # NULL

\* SELECT columns FROM "user" WHERE (col = val AND deleted_at IS NULL)
listUsersByCond(tbl, col, val) ==
    SelectSeq(tbl, LAMBDA u : u[col] = val /\ NormalUser(u))

getUser(tbl, col, val) ==
    LET found == listUsersByCond(tbl, col, val)
    IN  IF Len(found) > 0 THEN found[1] ELSE NilUser

GetUserByEmail(tbl, email) == getUser(tbl, "email", email)

GetUserByUsername(tbl, username) == getUser(tbl, "username", username)

GetUser(tbl, id) == getUser(tbl, "id", id)

ExistsEmailOrUsernameEmailOnlyWhenNoName(tbl, username, email) ==
    IF Len(username) > 0
    THEN getUser(tbl, "username", username) # NilUser
    ELSE IF Len(email) > 0
         THEN getUser(tbl, "email", email) # NilUser
         ELSE FALSE

ExistsEmailOrUsername(tbl, username, email) ==
    IF Len(username) > 0 /\ getUser(tbl, "username", username) # NilUser
    THEN TRUE
    ELSE IF Len(email) > 0 /\ getUser(tbl, "email", email) # NilUser
         THEN TRUE
         ELSE FALSE

\* SELECT columns FROM "user" WHERE deleted_at IS NULL LIMIT per OFFSET page * per
\* (no ORDER BY: the rows come in the order of the scan)
ListAllUsers(tbl, page, per) ==
    Take(Drop(SelectSeq(tbl, NormalUser), page * per), per)

ListAdminUsers(tbl) == listUsersByCond(tbl, "is_admin", TRUE)

\* SELECT "user".* FROM "user" JOIN session ON session.token = ? AND
\* session.expired_at >= ? WHERE "user".id = session.owner_id
GetUserByUserTokenStrict(tbl, sess, userToken, t) ==
    LET joined == SelectSeq(tbl, LAMBDA u :
                      \E i \in DOMAIN sess :
                          /\ sess[i].token = userToken
                          /\ sess[i].expired_at > t
                          /\ u.id = sess[i].owner_id)
    IN  IF Len(joined) > 0 THEN joined[1] ELSE NilUser

GetUserByUserToken(tbl, sess, userToken, t) ==
    LET joined == SelectSeq(tbl, LAMBDA u :
                      \E i \in DOMAIN sess :
                          /\ sess[i].token = userToken
                          /\ sess[i].expired_at >= t
                          /\ u.id = sess[i].owner_id)
    IN  IF Len(joined) > 0 THEN joined[1] ELSE NilUser

\* The row with the columns of valueMap set.
SetMap(u, valueMap) ==
    [c \in DOMAIN u |-> IF c \in DOMAIN valueMap THEN valueMap[c] ELSE u[c]]

\* An UPDATE writes a new version of the row; the scan meets it where the old
\* version was or after the rows written before it.
Rewritten(tbl, i, row) ==
    { [tbl EXCEPT ![i] = row], Append(Without(tbl, i), row) }

RECURSIVE RewriteAll(_, _, _, _)
\* The tables an UPDATE ... SET valueMap can leave, ids being the rows its
\* WHERE selects (k of them).
RewriteAll(tbl, ids, valueMap, k) ==
    IF k = 0 \/ ids = {} THEN { tbl }
    ELSE LET id == CHOOSE x \in ids : TRUE
             i  == CHOOSE j \in DOMAIN tbl : tbl[j].id = id
         IN  UNION { RewriteAll(t, ids \ {id}, valueMap, k - 1) :
                       t \in Rewritten(tbl, i, SetMap(tbl[i], valueMap)) }

\* UPDATE "user" SET valueMap WHERE col = val
update(tbl, col, val, valueMap) ==
    LET ids == { tbl[i].id : i \in { j \in DOMAIN tbl : tbl[j][col] = val } }
    IN  RewriteAll(tbl, ids, valueMap, Cardinality(ids))

UpdateLogin(tbl, userID, ip, t) ==
    update(tbl, "id", userID, [last_login_at |-> t, last_login_ip |-> ip])

UpdateNamespace(tbl, userID, namespaceID) ==
    update(tbl, "id", userID, [namespace_id |-> namespaceID])

\* UPDATE "user" SET verified_at = now WHERE (id = userID AND verified_at IS NULL)
ActivateUser(tbl, userID, t) ==
    LET ids == { tbl[i].id : i \in { j \in DOMAIN tbl :
                     tbl[j].id = userID /\ InactivateUser(tbl[j]) } }
    IN  RewriteAll(tbl, ids, [verified_at |-> t], Cardinality(ids))

\* Soft deletion: UPDATE "user" SET deleted_at = now WHERE (id = userID AND deleted_at IS NULL)
SoftDeleteUser(tbl, userID, t) ==
    LET ids == { tbl[i].id : i \in { j \in DOMAIN tbl :
                     tbl[j].id = userID /\ NormalUser(tbl[j]) } }
    IN  RewriteAll(tbl, ids, [deleted_at |-> t], Cardinality(ids))

\* The row INSERT INTO "user" ... RETURNING id makes of a registration.
NewUser(id, r) ==
    [id |-> id, email |-> r.email, encrypted_password |-> Hash(r.password),
     username |-> r.username, deleted_at |-> NULL, verified_at |-> NULL,
     last_login_at |-> NULL, last_login_ip |-> <<>>, is_admin |-> r.is_admin,
     namespace_id |-> 0]

\* The unique indexes of "user": e-mail and user name, among the rows not deleted.
UniqueAmongNormal(tbl, r) ==
    \A i \in DOMAIN tbl :
        NormalUser(tbl[i]) => tbl[i].email # r.email /\ tbl[i].username # r.username

-----------------------------------------------------------------------------
(* The login service *)

Fail(e) == [user |-> NilUser, err |-> e]

validatePasswordFirst(tbl, usernameOrEmail, password) ==
    LET u == IF Contains(usernameOrEmail, "@")
             THEN GetUserByEmail(tbl, usernameOrEmail)
             ELSE GetUserByUsername(tbl, usernameOrEmail)
    IN  IF u = NilUser THEN Fail("NotFound")
        ELSE IF ~ComparePassword(u.encrypted_password, password)
             THEN Fail("InvalidParameter")
        ELSE IF ~Verified(u) THEN Fail("AccessDenied")
        ELSE [user |-> u, err |-> OK]

validateUsernameOnly(tbl, usernameOrEmail, password) ==
    LET u == GetUserByUsername(tbl, usernameOrEmail)
    IN  IF u = NilUser THEN Fail("NotFound")
        ELSE IF ~Verified(u) THEN Fail("AccessDenied")
        ELSE IF ~ComparePassword(u.encrypted_password, password)
             THEN Fail("InvalidParameter")
        ELSE [user |-> u, err |-> OK]

\* func (r *LoginUserPayload) validate(src, usernameOrEmail, password)
validate(tbl, usernameOrEmail, password) ==
    LET u == IF Contains(usernameOrEmail, "@")
             THEN GetUserByEmail(tbl, usernameOrEmail)
             ELSE GetUserByUsername(tbl, usernameOrEmail)
    IN  IF u = NilUser THEN Fail("NotFound")
        ELSE IF ~Verified(u) THEN Fail("AccessDenied")
        ELSE IF ~ComparePassword(u.encrypted_password, password)
             THEN Fail("InvalidParameter")
        ELSE [user |-> u, err |-> OK]

buildSessionTokenOfOwner(userID, ip, uuid, t) ==
    [owner_id |-> userID, token |-> UUID(userID), client_ip |-> ip,
     created_at |-> t, expired_at |-> t + TokenExpiredTime]

\* func buildSession(userID, clientIP); uuid is what uuid.UUID() hands out,
\* t what time.Now().Unix() reads
buildSession(userID, ip, uuid, t) ==
    [owner_id |-> userID, token |-> uuid, client_ip |-> ip,
     created_at |-> t, expired_at |-> t + TokenExpiredTime]

-----------------------------------------------------------------------------
(* Initial states *)

NoCalls ==
    /\ pc = [p \in Calls |-> "idle"]
    /\ req = [p \in Calls |-> [Email |-> <<>>, Password |-> ""]]
    /\ user = [p \in Calls |-> LoginUser(NilUser)]
    /\ tx = [p \in Calls |-> NoTx]
    /\ result = [p \in Calls |-> NilResult]
    /\ err = [p \in Calls |-> OK]
    /\ cookie = [p \in Calls |-> NoToken]
    /\ resp = NoResp

\* The empty store
InitStore ==
    /\ users = <<>>
    /\ nextID = 1
    /\ sessions = <<>>
    /\ nextUUID = 1
    /\ now = Epoch
    /\ NoCalls

Alice == [email |-> <<"a", "@", "x">>, username |-> <<"a">>, password |-> "pw1", is_admin |-> TRUE]

Bob == [email |-> <<"b", "@", "x">>, username |-> <<"b">>, password |-> "pw2", is_admin |-> FALSE]

\* The store after two registrations and the activation of the first
Init ==
    /\ users = << [NewUser(1, Alice) EXCEPT !.verified_at = Epoch], NewUser(2, Bob) >>
    /\ nextID = 3
    /\ sessions = <<>>
    /\ nextUUID = 1
    /\ now = Epoch
    /\ NoCalls

-----------------------------------------------------------------------------
(* The clock *)

Tick ==
    /\ \E d \in TickSteps :
          /\ now + d <= Epoch + MaxTicks * TokenExpiredTime
          /\ now' = now + d
    /\ resp' = NoResp
    /\ UNCHANGED <<store, logins>>

-----------------------------------------------------------------------------
(* Writes to the user store *)

AddUser ==
    /\ Len(users) < MaxUsers
    /\ \E r \in Registrations :
          /\ UniqueAmongNormal(users, r)
          /\ users' = Append(users, NewUser(nextID, r))
    /\ nextID' = nextID + 1
    /\ resp' = NoResp
    /\ UNCHANGED <<sessions, nextUUID, now, logins>>

DoActivateUser ==
    /\ \E i \in DOMAIN users :
          /\ InactivateUser(users[i])
          /\ users' \in ActivateUser(users, users[i].id, now)
    /\ resp' = NoResp
    /\ UNCHANGED <<nextID, sessions, nextUUID, now, logins>>

DoSoftDeleteUser ==
    /\ \E i \in DOMAIN users :
          /\ NormalUser(users[i])
          /\ users' \in SoftDeleteUser(users, users[i].id, now)
    /\ resp' = NoResp
    /\ UNCHANGED <<nextID, sessions, nextUUID, now, logins>>

DoUpdateNamespace ==
    /\ \E i \in DOMAIN users :
          /\ users[i].namespace_id = 0
          /\ users' \in UpdateNamespace(users, users[i].id, users[i].id)
    /\ resp' = NoResp
    /\ UNCHANGED <<nextID, sessions, nextUUID, now, logins>>

-----------------------------------------------------------------------------
(* Login, statement by statement *)

Return(p, e) ==
    /\ pc' = [pc EXCEPT ![p] = "done"]
    /\ err' = [err EXCEPT ![p] = e]
    /\ result' = [result EXCEPT ![p] = NilResult]
    /\ tx' = [tx EXCEPT ![p] = NoTx]
    /\ user' = [user EXCEPT ![p] = LoginUser(NilUser)]

LoginStampsBeforeValidate(p) ==
    /\ pc[p] = "idle"
    /\ \E c \in Credentials, sqlError \in BOOLEAN :
          LET v == validate(users, c.Email, c.Password)
              u == IF Contains(c.Email, "@")
                   THEN GetUserByEmail(users, c.Email)
                   ELSE GetUserByUsername(users, c.Email)
          IN  /\ req' = [req EXCEPT ![p] = c]
              /\ IF sqlError
                 THEN Return(p, "SQLError") /\ users' = users
                 ELSE /\ users' \in UpdateLogin(users, u.id, ClientIP(p), now)
                      /\ IF v.err # OK
                         THEN Return(p, v.err)
                         ELSE /\ user' = [user EXCEPT ![p] = LoginUser(v.user)]
                              /\ pc' = [pc EXCEPT ![p] = "updateLogin"]
                              /\ UNCHANGED <<tx, result, err>>
    /\ resp' = NoResp
    /\ UNCHANGED <<nextID, sessions, nextUUID, now, cookie>>

\* Login, lines 60-65: validate and its early return
Login(p) ==
    /\ pc[p] = "idle"
    /\ \E c \in Credentials, sqlError \in BOOLEAN :
          LET v == validate(users, c.Email, c.Password)
          IN  /\ req' = [req EXCEPT ![p] = c]
              /\ IF sqlError
                 THEN Return(p, "SQLError")
                 ELSE IF v.err # OK
                 THEN Return(p, v.err)
                 ELSE /\ user' = [user EXCEPT ![p] = LoginUser(v.user)]
                      /\ pc' = [pc EXCEPT ![p] = "updateLogin"]
                      /\ UNCHANGED <<tx, result, err>>
    /\ resp' = NoResp
    /\ UNCHANGED <<store, now, cookie>>

LoginUpdateLoginOutsideTx(p) ==
    /\ pc[p] = "updateLogin"
    /\ \E sqlError \in BOOLEAN :
          IF sqlError
          THEN Return(p, "SQLError") /\ users' = users
          ELSE /\ users' \in UpdateLogin(users, user[p].id, ClientIP(p), now)
               /\ pc' = [pc EXCEPT ![p] = "addSession"]
               /\ UNCHANGED <<tx, result, err, user>>
    /\ resp' = NoResp
    /\ UNCHANGED <<nextID, sessions, nextUUID, now, req, cookie>>

\* db.Transact's BEGIN and Login, lines 68-71:
\* userModel.UpdateLogin(tx, user.ID, clientIP); an error rolls back
LoginUpdateLogin(p) ==
    /\ pc[p] = "updateLogin"
    /\ \E sqlError \in BOOLEAN :
          IF sqlError
          THEN Return(p, "SQLError")
          ELSE /\ tx' = [tx EXCEPT ![p].update =
                            <<[id |-> user[p].id, ip |-> ClientIP(p), at |-> now]>>]
               /\ pc' = [pc EXCEPT ![p] = "addSession"]
               /\ UNCHANGED <<result, err, user>>
    /\ resp' = NoResp
    /\ UNCHANGED <<store, now, req, cookie>>

\* Login, lines 73-90: buildSession, sessionModel.AddSession, the result and
\* the cookie; an error rolls back
LoginAddSession(p) ==
    /\ pc[p] = "addSession"
    /\ nextUUID' = nextUUID + 1
    /\ \E sqlError \in BOOLEAN :
          LET sess == buildSession(user[p].id, ClientIP(p), UUID(nextUUID), now)
          IN  IF sqlError
              THEN Return(p, "SQLError") /\ cookie' = cookie
              ELSE /\ tx' = [tx EXCEPT ![p].insert = <<sess>>]
                   /\ result' = [result EXCEPT ![p] =
                                    [Token |-> sess.token,
                                     NamespaceID |-> user[p].namespace_id,
                                     Email |-> user[p].email]]
                   /\ cookie' = [cookie EXCEPT ![p] = sess.token]
                   /\ pc' = [pc EXCEPT ![p] = "commit"]
                   /\ UNCHANGED <<err, user>>
    /\ resp' = NoResp
    /\ UNCHANGED <<users, nextID, sessions, now, req>>

\* The tables the UPDATE statements of a transaction leave when it commits.
Applied(tbl, updates) ==
    IF updates = <<>> THEN { tbl }
    ELSE UpdateLogin(tbl, updates[1].id, updates[1].ip, updates[1].at)

\* db.Transact: COMMIT, and Login's lines 92-95
TransactCommit(p) ==
    /\ pc[p] = "commit"
    /\ \E sqlError \in BOOLEAN :
          IF sqlError
          THEN Return(p, "SQLError") /\ UNCHANGED <<users, sessions>>
          ELSE /\ users' \in Applied(users, tx[p].update)
               /\ sessions' = sessions \o tx[p].insert
               /\ pc' = [pc EXCEPT ![p] = "done"]
               /\ tx' = [tx EXCEPT ![p] = NoTx]
               /\ user' = [user EXCEPT ![p] = LoginUser(NilUser)]
               /\ UNCHANGED <<result, err>>
    /\ resp' = NoResp
    /\ UNCHANGED <<nextID, nextUUID, now, req, cookie>>

-----------------------------------------------------------------------------
(* Reads of the user store; resp holds the answer until the next write *)

Rows(u) == IF u = NilUser THEN <<>> ELSE <<u>>

ReadGetUser ==
    /\ \E id \in 1 .. MaxUsers :
          resp' = [op |-> "GetUser", a |-> id, b |-> 0,
                   rows |-> Rows(GetUser(users, id)), ok |-> TRUE]
    /\ UNCHANGED <<store, now, logins>>

ReadGetUserByEmail ==
    /\ \E e \in Emails :
          resp' = [op |-> "GetUserByEmail", a |-> e, b |-> 0,
                   rows |-> Rows(GetUserByEmail(users, e)), ok |-> TRUE]
    /\ UNCHANGED <<store, now, logins>>

ReadGetUserByUsername ==
    /\ \E n \in Usernames :
          resp' = [op |-> "GetUserByUsername", a |-> n, b |-> 0,
                   rows |-> Rows(GetUserByUsername(users, n)), ok |-> TRUE]
    /\ UNCHANGED <<store, now, logins>>

ReadExistsEmailOrUsername ==
    /\ \E n \in Usernames \cup { <<>> }, e \in Emails \cup { <<>> } :
          resp' = [op |-> "ExistsEmailOrUsername", a |-> n, b |-> e,
                   rows |-> <<>>, ok |-> ExistsEmailOrUsername(users, n, e)]
    /\ UNCHANGED <<store, now, logins>>

ReadListAllUsers ==
    /\ \E page \in 0 .. MaxUsers, per \in 1 .. MaxUsers :
          resp' = [op |-> "ListAllUsers", a |-> page, b |-> per,
                   rows |-> ListAllUsers(users, page, per), ok |-> TRUE]
    /\ UNCHANGED <<store, now, logins>>

ReadListAdminUsers ==
    /\ resp' = [op |-> "ListAdminUsers", a |-> 0, b |-> 0,
                rows |-> ListAdminUsers(users), ok |-> TRUE]
    /\ UNCHANGED <<store, now, logins>>

-----------------------------------------------------------------------------
(* Specifications *)

LoginStep ==
    \/ \E p \in Calls : Login(p)
    \/ \E p \in Calls : LoginUpdateLogin(p)
    \/ \E p \in Calls : LoginAddSession(p)
    \/ \E p \in Calls : TransactCommit(p)

\* Concurrent Login calls while users are activated and soft-deleted
Next ==
    \/ LoginStep
    \/ DoActivateUser
    \/ DoSoftDeleteUser

Spec == Init /\ [][Next]_vars

\* Concurrent Login calls while the clock advances
NextSession ==
    \/ LoginStep
    \/ Tick

SpecSession == Init /\ [][NextSession]_vars

\* The operations of the user store
NextStore ==
    \/ AddUser
    \/ DoSoftDeleteUser
    \/ DoUpdateNamespace
    \/ ReadGetUser
    \/ ReadGetUserByEmail
    \/ ReadGetUserByUsername
    \/ ReadExistsEmailOrUsername
    \/ ReadListAllUsers
    \/ ReadListAdminUsers

SpecStore == InitStore /\ [][NextStore]_vars

-----------------------------------------------------------------------------
(* Vocabulary of the properties *)

RowSet(tbl) == { tbl[i] : i \in DOMAIN tbl }

\* The rows call p has left in the store: its request's address marks them.
SessionsOf(p) == { i \in DOMAIN sessions : sessions[i].client_ip = ClientIP(p) }

LastLoginOf(p) == { i \in DOMAIN users : users[i].last_login_ip = ClientIP(p) }

\* The user rows whose e-mail or user name is the identifier.
Named(tbl, identifier) ==
    { u \in RowSet(tbl) : u.email = identifier \/ u.username = identifier }

\* The active, verified users the credentials c belong to.
Holders(tbl, c) ==
    { u \in Named(tbl, c.Email) :
        /\ u.deleted_at = NULL
        /\ u.verified_at # NULL
        /\ u.encrypted_password = Hash(c.Password) }

\* The step is call p running validate.
Validates(p) == pc[p] = "idle" /\ pc'[p] # "idle"

SQLFailed(p) == pc'[p] = "done" /\ err'[p] = "SQLError"

\* The user validate's lookup finds for the payload of call p, NilUser if none.
Found(p) ==
    IF Contains(req'[p].Email, "@")
    THEN GetUserByEmail(users, req'[p].Email)
    ELSE GetUserByUsername(users, req'[p].Email)

Tokens == { UUID(n) : n \in 1 .. nextUUID }

-----------------------------------------------------------------------------
(* C1: Login's writes after validation are all or nothing.  No step changes *)
(* a user's last-login columns without inserting exactly one session row of *)
(* that user, and none inserts a session row without setting its owner's    *)
(* last-login columns; a call that has returned an error has left neither a *)
(* session row nor a last-login update, a call that has returned without    *)
(* error has left exactly one session row.                                  *)

LoginWritesTogether ==
    LET added == Len(sessions') - Len(sessions)
        last  == sessions'[Len(sessions')]
    IN  /\ added \in { 0, 1 }
        /\ SubSeq(sessions', 1, Len(sessions)) = sessions
        /\ \A u \in RowSet(users), v \in RowSet(users') :
              (u.id = v.id /\ <<u.last_login_at, u.last_login_ip>> #
                              <<v.last_login_at, v.last_login_ip>>)
              => (added = 1 /\ last.owner_id = u.id)
        /\ added = 1 =>
              \E v \in RowSet(users') :
                  /\ v.id = last.owner_id
                  /\ v.last_login_ip = last.client_ip
                  /\ v.last_login_at # NULL
                  /\ v.last_login_at <= last.created_at

LoginLeavesAllOrNothing ==
    \A p \in Calls :
        /\ (pc[p] = "done" /\ err[p] # OK) => (SessionsOf(p) = {} /\ LastLoginOf(p) = {})
        /\ (pc[p] = "done" /\ err[p] = OK) => Cardinality(SessionsOf(p)) = 1
        /\ pc[p] # "done" => (SessionsOf(p) = {} /\ LastLoginOf(p) = {})

C1_LoginAtomic == [][LoginWritesTogether /\ LoginLeavesAllOrNothing']_vars

\* A call whose UpdateLogin and AddSession ran and whose commit failed: nothing is left.
C1_Witness ==
    \E p \in Calls :
        /\ pc[p] = "done" /\ err[p] = "SQLError" /\ cookie[p] # NoToken
        /\ \E q \in Calls : pc[q] = "done" /\ err[q] = OK

-----------------------------------------------------------------------------
(* C2: when the identifier is the e-mail or the user name of an active,     *)
(* verified user, the password matches its hash and no database step fails, *)
(* Login passes validation with that user, returns without error, and the   *)
(* token it returns is the token of a stored session row owned by that user.*)

ValidLoginProceeds ==
    \A p \in Calls :
        (Validates(p) /\ Holders(users, req'[p]) # {} /\ ~SQLFailed(p))
        => /\ pc'[p] = "updateLogin"
           /\ user'[p] \in { LoginUser(u) : u \in Holders(users, req'[p]) }

ValidatedLoginSucceeds ==
    \A p \in Calls :
        /\ (pc[p] \in { "updateLogin", "addSession", "commit" } /\ pc'[p] = "done")
           => err'[p] \in { OK, "SQLError" }
        /\ (pc'[p] = "done" /\ err'[p] = OK)
           => \E s \in RowSet(sessions') :
                 /\ s.token = result'[p].Token
                 /\ s.token # NoToken
                 /\ \E u \in Named(users', req'[p].Email) : s.owner_id = u.id

-----------------------------------------------------------------------------
(* C3: when validate's lookup finds a user whose verified_at is NULL, Login *)
(* returns AccessDenied, whether or not the password matches.               *)

C3_UnverifiedDenied ==
    [][\A p \in Calls :
          (Validates(p) /\ ~SQLFailed(p) /\ Found(p) # NilUser
              /\ Found(p).verified_at = NULL)
          => (pc'[p] = "done" /\ err'[p] = "AccessDenied"
                /\ result'[p] = NilResult)]_vars

\* Two calls denied for the unverified user, one with its password and one without.
C3_Witness ==
    \E p, q \in Calls :
        /\ pc[p] = "done" /\ err[p] = "AccessDenied"
        /\ pc[q] = "done" /\ err[q] = "AccessDenied"
        /\ \E u \in Named(users, req[p].Email) : u.encrypted_password = Hash(req[p].Password)
        /\ \E u \in Named(users, req[q].Email) : u.encrypted_password # Hash(req[q].Password)

-----------------------------------------------------------------------------
(* C4: when validate's lookup finds a verified user and the password does   *)
(* not match its hash, Login returns InvalidParameter and the step leaves   *)
(* the user and session relations as they were; nothing of the call is      *)
(* stored later either.                                                     *)

C4_WrongPasswordChangesNothing ==
    [][\A p \in Calls :
          /\ (Validates(p) /\ ~SQLFailed(p) /\ Found(p) # NilUser
                 /\ Found(p).verified_at # NULL
                 /\ ~ComparePassword(Found(p).encrypted_password, req'[p].Password))
             => (pc'[p] = "done" /\ err'[p] = "InvalidParameter"
                   /\ users' = users /\ sessions' = sessions)
          /\ (pc[p] = "done" /\ err[p] = "InvalidParameter")
             => (SessionsOf(p) = {} /\ LastLoginOf(p) = {})]_vars

\* A call refused for its password while another call's login is stored.
C4_Witness ==
    \E p, q \in Calls :
        /\ pc[p] = "done" /\ err[p] = "InvalidParameter"
        /\ pc[q] = "done" /\ err[q] = OK /\ sessions # <<>>

-----------------------------------------------------------------------------
(* C10: the auth-user-token cookie is on the response only for a stored     *)
(* session: a call that has returned with the cookie set has returned       *)
(* without error, and the cookie is the token of a stored session row of    *)
(* the user who logged in.                                                  *)

C10_CookieOnlyForStoredSession ==
    \A p \in Calls :
        (pc[p] = "done" /\ cookie[p] # NoToken)
        => /\ err[p] = OK
           /\ \E s \in RowSet(sessions) :
                 /\ s.token = cookie[p]
                 /\ \E u \in Named(users, req[p].Email) : s.owner_id = u.id

-----------------------------------------------------------------------------
(* C6: no read of the user store returns a soft-deleted user: GetUser,      *)
(* GetUserByEmail, GetUserByUsername, ListAllUsers, ListAdminUsers and      *)
(* GetUserByUserToken return only rows whose deleted_at is NULL, and        *)
(* ExistsEmailOrUsername is true only of such a row.                        *)

C6_ReadsSkipDeletedUsers ==
    /\ \A id \in 1 .. nextID : GetUser(users, id).deleted_at = NULL
    /\ \A e \in Emails : GetUserByEmail(users, e).deleted_at = NULL
    /\ \A n \in Usernames : GetUserByUsername(users, n).deleted_at = NULL
    /\ \A n \in Usernames, e \in Emails :
          ExistsEmailOrUsername(users, n, e)
          => \E u \in RowSet(users) :
                u.deleted_at = NULL /\ (u.username = n \/ u.email = e)
    /\ \A page \in 0 .. MaxUsers, per \in 1 .. MaxUsers :
          \A u \in RowSet(ListAllUsers(users, page, per)) : u.deleted_at = NULL
    /\ \A u \in RowSet(ListAdminUsers(users)) : u.deleted_at = NULL
    /\ \A token \in Tokens :
          GetUserByUserToken(users, sessions, token, now).deleted_at = NULL

-----------------------------------------------------------------------------
(* C5: of two Login calls with valid credentials, whatever their            *)
(* interleaving, each returns without error unless a database step fails;   *)
(* when both have returned without error each has left one session row,     *)
(* the two tokens differ, and each token resolves to its owner through      *)
(* GetUserByUserToken as long as its own expiry lies ahead.                 *)

SessionOf(p) == sessions[CHOOSE i \in SessionsOf(p) : TRUE]

C5_ConcurrentLoginsIndependent ==
    /\ \A p \in Calls :
          (pc[p] = "done" /\ err[p] # OK /\ err[p] # "SQLError")
          => Holders(users, req[p]) = {}
    /\ \A p \in Calls :
          (pc[p] = "done" /\ err[p] = OK)
          => /\ Cardinality(SessionsOf(p)) = 1
             /\ LET s == SessionOf(p)
                IN  /\ s.token = result[p].Token
                    /\ s.owner_id \in { u.id : u \in Named(users, req[p].Email) }
                    /\ now < s.expired_at
                       => GetUserByUserToken(users, sessions, s.token, now).id = s.owner_id
                    /\ \A q \in Calls \ {p} :
                          (pc[q] = "done" /\ err[q] = OK) => result[q].Token # s.token

\* Two logins of one account that overlapped: the call that built its session
\* second committed first.
C5_Witness ==
    \E p, q \in Calls :
        /\ p # q
        /\ pc[p] = "done" /\ err[p] = OK /\ pc[q] = "done" /\ err[q] = OK
        /\ Len(sessions) = 2
        /\ sessions[1].owner_id = sessions[2].owner_id
        /\ sessions[1].token = UUID(2) /\ sessions[2].token = UUID(1)

-----------------------------------------------------------------------------
(* C7 as amended: GetUserByUserToken(token) returns the owning user exactly *)
(* when a session row with that token exists and the current time is at     *)
(* most its expired_at, and returns no user at every later time.            *)

Resolves(token) == GetUserByUserToken(users, sessions, token, now)

C7_ValidThroughExpiry ==
    \A token \in Tokens :
        LET u == Resolves(token)
        IN  IF \E i \in DOMAIN sessions :
                  sessions[i].token = token /\ now <= sessions[i].expired_at
            THEN /\ u # NilUser
                 /\ \E i \in DOMAIN sessions :
                       sessions[i].token = token /\ sessions[i].owner_id = u.id
            ELSE u = NilUser

\* A session at the instant of its expired_at.
C7_Witness ==
    \E s \in RowSet(sessions) : now = s.expired_at /\ Resolves(s.token).id = s.owner_id

(* C7 as claimed: GetUserByUserToken(token) returns the owning user exactly *)
(* when a session row with that token exists and the current time is        *)
(* strictly less than its expired_at.                                       *)

C7_ValidBeforeExpiry ==
    \A token \in Tokens :
        Resolves(token) # NilUser
        <=> \E s \in RowSet(sessions) : s.token = token /\ now < s.expired_at

-----------------------------------------------------------------------------
(* C8: ExistsEmailOrUsername(username, email) is true exactly when some     *)
(* user row that is not soft-deleted has the given non-empty user name or   *)
(* the given non-empty e-mail.                                              *)

C8_ExistsIffNormalMatch ==
    resp.op = "ExistsEmailOrUsername"
    => (resp.ok <=> \E u \in RowSet(users) :
                       /\ u.deleted_at = NULL
                       /\ \/ (Len(resp.a) > 0 /\ u.username = resp.a)
                          \/ (Len(resp.b) > 0 /\ u.email = resp.b))

\* The answer is false though a soft-deleted row has the e-mail, and another
\* row, not deleted, exists.
C8_Witness ==
    /\ resp.op = "ExistsEmailOrUsername"
    /\ ~resp.ok
    /\ Len(resp.b) > 0
    /\ \E u \in RowSet(users) : u.deleted_at # NULL /\ u.email = resp.b
    /\ \E u \in RowSet(users) : u.deleted_at = NULL

-----------------------------------------------------------------------------
(* C9: ListAllUsers(page, per) returns the normal users at the positions    *)
(* page*per+1 .. page*per+per of the normal users in insertion order.       *)

RECURSIVE ById(_, _)
\* The rows of tbl with an id of at least id, by ascending id.
ById(tbl, id) ==
    IF id >= nextID THEN <<>>
    ELSE SelectSeq(tbl, LAMBDA u : u.id = id) \o ById(tbl, id + 1)

C9_PagesInInsertionOrder ==
    resp.op = "ListAllUsers"
    => resp.rows = Take(Drop(SelectSeq(ById(users, 1), LAMBDA u : u.deleted_at = NULL),
                             resp.a * resp.b), resp.b)

====
